---- MODULE Spec2Model ----
(***************************************************************************)
(* PebbloRetrievalQA (libs/community/.../chains/pebblo_retrieval/base.py): *)
(* a retrieval chain that attaches an identity/semantic enforcement filter *)
(* to its retriever before every similarity search, and reports discovery  *)
(* and prompt payloads to a classifier service.                            *)
(*                                                                         *)
(* The chain's own code (construction, _call/_acall, _get_docs/_aget_docs, *)
(* _send_discover/_send_prompt and the class-level "sent" flags) is        *)
(* modelled from base.py.  enforcement_filters.py (SUPPORTED_VECTORSTORES, *)
(* set_enforcement_filters) is imported by base.py but is not part of the  *)
(* sources at hand; it is modelled from the written specification          *)
(* (sections 4.1-4.3) and marked as such at each definition.               *)
(***************************************************************************)
EXTENDS Integers, FiniteSets, Sequences, TLC

VARIABLES
    chain,          \* the PebbloRetrievalQA instance, or NoChain before construction
    search_kwargs,  \* per retriever handle: the filter slot read by the next search
    req,            \* per thread/task: the request it is serving and its position
    discover_sent,  \* PebbloRetrievalQA._discover_sent (class attribute)
    prompt_sent,    \* PebbloRetrievalQA._prompt_sent (class attribute)
    last            \* what the call completed by the latest step handed its caller

vars == <<chain, search_kwargs, req, discover_sent, prompt_sent, last>>

-----------------------------------------------------------------------------
(* Bounds of the model *)

\* longest user_auth list a request's AuthContext carries
MaxUserAuth == 1

Threads == {"t1", "t2"}
Users == {"alice"}
Groups == {"team-a"}
Topics == {"finance"}
Entities == {"ssn"}

-----------------------------------------------------------------------------
(* Retriever handles and vector stores *)

\* enforcement_filters.SUPPORTED_VECTORSTORES: the fixed list of supported
\* backends; "X" has full operator support, "Y" declares no NOT operator.
SUPPORTED_VECTORSTORES == {"X", "Y"}

\* operators each supported backend's capability record declares
BackendOperators(backend) ==
    IF backend = "X" THEN {"AND", "OR", "NOT"} ELSE {"AND", "OR"}

Retrievers == {"rX", "rY", "rZ"}

\* retriever.vectorstore: the store type behind each handle ("Z" is unsupported)
vectorstore(retriever) ==
    CASE retriever = "rX" -> "X"
      [] retriever = "rY" -> "Y"
      [] OTHER -> "Z"

-----------------------------------------------------------------------------
(* Request inputs: the values found under auth_context / semantic_context *)

Omitted == [kind |-> "omitted"]    \* the key is missing from inputs
None == [kind |-> "None"]
EmptyDict == [kind |-> "dict"]     \* {}

RECURSIVE SeqsUpTo(_, _)
SeqsUpTo(S, n) ==
    IF n = 0 THEN {<<>>}
    ELSE LET shorter == SeqsUpTo(S, n - 1)
         IN shorter \cup {Append(q, x) : q \in shorter, x \in S}

Range(q) == {q[i] : i \in DOMAIN q}

AuthContexts ==
    {[kind |-> "AuthContext", user_id |-> u, user_auth |-> g] :
        u \in Users, g \in SeqsUpTo(Groups, MaxUserAuth)}

SemanticContext(at, dt, ae, de) ==
    [kind |-> "SemanticContext", allowed_topics |-> at, denied_topics |-> dt,
     allowed_entities |-> ae, denied_entities |-> de]

AuthInputs == {Omitted} \cup AuthContexts

\* no semantic context, one with all four sets empty, a denied topic, and a
\* label both allowed and denied in either dimension
SemanticInputs ==
    {Omitted, SemanticContext({}, {}, {}, {})}
    \cup {SemanticContext({}, {l}, {}, {}) : l \in Topics}
    \cup {SemanticContext({l}, {l}, {}, {}) : l \in Topics}
    \cup {SemanticContext({}, {}, {l}, {l}) : l \in Entities}

-----------------------------------------------------------------------------
(* The document corpus behind every store, with the metadata filters test *)

Corpus == {"d1", "d2", "d3", "d4"}

Metadata(d) ==
    CASE d = "d1" -> [authorized |-> {"alice"}, topics |-> {"finance"}, entities |-> {}]
      [] d = "d2" -> [authorized |-> {"team-a"}, topics |-> {}, entities |-> {"ssn"}]
      [] d = "d3" -> [authorized |-> {"bob"}, topics |-> {"finance"}, entities |-> {"ssn"}]
      [] OTHER -> [authorized |-> {"alice", "bob"}, topics |-> {}, entities |-> {}]

-----------------------------------------------------------------------------
(* Filter compiler and enforcement coordinator (enforcement_filters.py)    *)

\* the handle's slot before any enforcement: no filter attached
NoAttachment == [kind |-> "none"]

NoIdentity == [present |-> FALSE, principal |-> "", groups |-> {}]

\* a context that is absent (None), or empty ({}), or not given at all
IsAbsent(ctx) == ctx.kind \in {"None", "dict", "omitted"}

\* Identity clause: principal matches OR any held group matches
IdentityClause(auth) ==
    IF IsAbsent(auth) THEN NoIdentity
    ELSE [present |-> TRUE, principal |-> auth.user_id, groups |-> Range(auth.user_auth)]

\* Semantic clause of one dimension: IN for a non-empty allow list, NOT-IN
\* for a non-empty deny list (added regardless of the allow list)
SemanticClause(allowed, denied) == [in |-> allowed, not_in |-> denied]

\* the compiled filter tree, or the compilation error
CompileFilter(auth, sem, backend) ==
    LET topics == IF IsAbsent(sem) THEN SemanticClause({}, {})
                  ELSE SemanticClause(sem.allowed_topics, sem.denied_topics)
        entities == IF IsAbsent(sem) THEN SemanticClause({}, {})
                    ELSE SemanticClause(sem.allowed_entities, sem.denied_entities)
        needsNot == topics.not_in # {} \/ entities.not_in # {}
    IN  IF needsNot /\ "NOT" \notin BackendOperators(backend)
        THEN [status |-> "UnsupportedFilterOperatorError", filter |-> NoAttachment]
        ELSE [status |-> "ok",
              filter |-> [kind |-> "filter", backend |-> backend,
                          identity |-> IdentityClause(auth),
                          topics |-> topics, entities |-> entities]]

\* the filter that restricts nothing, as compiled for a backend
EmptyFilter(backend) ==
    [kind |-> "filter", backend |-> backend, identity |-> NoIdentity,
     topics |-> SemanticClause({}, {}), entities |-> SemanticClause({}, {})]

\* Faulty variant: a second attachment wraps the filter already in the slot
\* in a conjunction with the new one instead of replacing it.
set_enforcement_filters_nesting(slot, backend, auth, sem) ==
    IF backend \notin SUPPORTED_VECTORSTORES
    THEN [status |-> "UnsupportedBackendError", slot |-> slot]
    ELSE LET c == CompileFilter(auth, sem, backend)
         IN  IF c.status # "ok" THEN [status |-> c.status, slot |-> slot]
             ELSE IF slot.kind = "filter"
             THEN [status |-> "ok",
                   slot |-> [kind |-> "filter", backend |-> backend,
                             identity |-> c.filter.identity, topics |-> c.filter.topics,
                             entities |-> c.filter.entities, and_with |-> slot.identity]]
             ELSE [status |-> "ok", slot |-> c.filter]

\* set_enforcement_filters(retriever, auth_context, semantic_context):
\* consult the registry, compile, attach to the handle's slot.  Yields the
\* status the caller sees and the slot it leaves behind.
set_enforcement_filters(slot, backend, auth, sem) ==
    IF backend \notin SUPPORTED_VECTORSTORES
    THEN [status |-> "UnsupportedBackendError", slot |-> slot]
    ELSE LET c == CompileFilter(auth, sem, backend)
         IN  IF c.status = "ok"
             THEN [status |-> "ok", slot |-> c.filter]
             ELSE [status |-> c.status, slot |-> slot]

\* whether a document passes a slot's filter
Matches(f, d) ==
    LET m == Metadata(d)
    IN  \/ f.kind = "none"
        \/ /\ f.identity.present =>
                \/ f.identity.principal \in m.authorized
                \/ f.identity.groups \cap m.authorized # {}
           /\ f.topics.not_in \cap m.topics = {}
           /\ f.topics.in # {} => f.topics.in \cap m.topics # {}
           /\ f.entities.not_in \cap m.entities = {}
           /\ f.entities.in # {} => f.entities.in \cap m.entities # {}

\* retriever.get_relevant_documents: the similarity search under the slot
Search(slot) == {d \in Corpus : Matches(slot, d)}

-----------------------------------------------------------------------------
(* HTTP outcomes of a telemetry POST *)

OK == 200
BAD_GATEWAY == 502

NotSent == [kind |-> "NotSent", status |-> 0, json_ok |-> FALSE]
Response(status, json_ok) == [kind |-> "response", status |-> status, json_ok |-> json_ok]

\* requests.post(...) to the local classifier: a response (whose body may
\* fail to decode in pebblo_resp.json()), a RequestException, or another error
LocalOutcomes ==
    {Response(OK, TRUE), Response(BAD_GATEWAY, TRUE), Response(500, TRUE),
     Response(OK, FALSE),
     [kind |-> "RequestException", status |-> 0, json_ok |-> FALSE],
     [kind |-> "Exception", status |-> 0, json_ok |-> FALSE]}

CloudOutcomes == {"response", "RequestException", "Exception"}

\* the cloud POST is made only with an api_key
CloudFor(api_key) == IF api_key THEN CloudOutcomes ELSE {"NotSent"}

-----------------------------------------------------------------------------
(* PebbloRetrievalQA: pure parts of the handlers *)

\* Faulty variant: the validator accepts every retriever.
validate_vectorstore_accepts_all(retriever) == TRUE

\* validate_vectorstore: TRUE when the retriever is returned, FALSE when
\* ValueError is raised
validate_vectorstore(retriever) ==
    \E supported_class \in SUPPORTED_VECTORSTORES :
        vectorstore(retriever) = supported_class

\* inputs.get(key, default)
InputsGet(value, default) == IF value.kind = "omitted" THEN default ELSE value

\* Faulty variant: _call hands _get_docs no semantic context.
call_contexts_drop_semantic(auth_in, sem_in) ==
    [auth |-> InputsGet(auth_in, EmptyDict), sem |-> EmptyDict]

\* _call: auth_context / semantic_context default to {}
call_contexts(auth_in, sem_in) ==
    [auth |-> InputsGet(auth_in, EmptyDict), sem |-> InputsGet(sem_in, EmptyDict)]

\* Faulty variant: _acall substitutes an "unknown" principal for a missing
\* auth_context.
acall_contexts_unknown_user(auth_in, sem_in) ==
    [auth |-> InputsGet(auth_in, [kind |-> "AuthContext", user_id |-> "unknown",
                                  user_auth |-> <<>>]),
     sem |-> InputsGet(sem_in, None)]

\* _acall: auth_context / semantic_context default to None
acall_contexts(auth_in, sem_in) ==
    [auth |-> InputsGet(auth_in, None), sem |-> InputsGet(sem_in, None)]

\* Faulty variant: the enforcement error is caught and retrieval goes on.
get_docs_proceeds_always(status) == TRUE

\* _get_docs / _aget_docs: the search statement runs only when
\* set_enforcement_filters returned; an exception leaves the method
get_docs_proceeds(status) == status = "ok"

\* combine_documents_chain.run: the answer generated over the documents
Answer(docs) == [over |-> docs]

NoResult == [keys |-> {}, result |-> Answer({}), source_documents |-> {}]

\* the dict _call / _acall return
call_return(answer, docs, return_source_documents) ==
    IF return_source_documents
    THEN [keys |-> {"result", "source_documents"}, result |-> answer,
          source_documents |-> docs]
    ELSE [keys |-> {"result"}, result |-> answer, source_documents |-> {}]

\* _send_discover, local POST: whether set_discover_sent() is reached
discover_accepted(local) ==
    local.kind = "response" /\ local.json_ok /\ local.status \in {OK, BAD_GATEWAY}

\* Faulty variant: any HTTP response marks the prompt as sent.
prompt_accepted_any_status(local) == local.kind = "response"

\* _send_prompt, local POST: whether set_prompt_sent() is reached
prompt_accepted(local) ==
    local.kind = "response" /\ local.json_ok /\ local.status \in {OK, BAD_GATEWAY}

\* Faulty variant: only RequestException is caught.
send_prompt_uncaught(local, cloud, api_key) ==
    IF local.kind = "Exception" \/ (api_key /\ cloud = "Exception")
    THEN "raises" ELSE "returns"

\* _send_prompt: how the method ends for the outcomes of its two POSTs;
\* every exception of either POST is caught and logged
send_prompt(local, cloud, api_key) == "returns"

\* Faulty variant: the retriever is validated before anything is sent.
from_chain_type_validates_first(retriever) == validate_vectorstore(retriever)

\* from_chain_type: whether _send_discover has run by the time cls(...)
\* validates the retriever
from_chain_type_discovers(retriever) == TRUE

-----------------------------------------------------------------------------
(* State *)

NoChain == [kind |-> "none"]
Idle == [pc |-> "idle", path |-> "none", auth |-> Omitted, sem |-> Omitted, enforced |-> "none"]
NotSearched == [kind |-> "not_searched"]

Outcome(op, status, retriever, local, cloud, used, result) ==
    [op |-> op, status |-> status, retriever |-> retriever, local |-> local,
     cloud |-> cloud, used |-> used, result |-> result]

\* the latest step completed no call
NoOutcome == Outcome("none", "none", "none", NotSent, "NotSent", NotSearched, NoResult)

Init ==
    /\ chain = NoChain
    /\ search_kwargs = [r \in Retrievers |-> NoAttachment]
    /\ req = [t \in Threads |-> Idle]
    /\ discover_sent = FALSE
    /\ prompt_sent = FALSE
    /\ last = NoOutcome

-----------------------------------------------------------------------------
(* Construction *)

\* PebbloRetrievalQA(retriever=..., ...): the pydantic constructor runs
\* validate_vectorstore on the retriever
Construct(retriever, api_key, return_source_documents) ==
    /\ chain = NoChain
    /\ IF validate_vectorstore(retriever)
       THEN /\ chain' = [kind |-> "chain", retriever |-> retriever, api_key |-> api_key,
                         return_source_documents |-> return_source_documents]
            /\ last' = Outcome("__init__", "ok", retriever, NotSent, "NotSent", NotSearched, NoResult)
       ELSE /\ chain' = chain
            /\ last' = Outcome("__init__", "ValueError", retriever, NotSent, "NotSent", NotSearched, NoResult)
    /\ UNCHANGED <<search_kwargs, req, discover_sent, prompt_sent>>

\* PebbloRetrievalQA.from_chain_type(llm, ..., retriever=...):
\* _send_discover (local POST, cloud POST when api_key), then cls(...)
FromChainType(retriever, api_key, return_source_documents, local, cloud) ==
    /\ chain = NoChain
    /\ cloud \in CloudFor(api_key)
    /\ LET discovers == from_chain_type_discovers(retriever)
           valid == validate_vectorstore(retriever)
       IN  /\ discover_sent' = (discover_sent \/ (discovers /\ discover_accepted(local)))
           /\ IF valid
              THEN chain' = [kind |-> "chain", retriever |-> retriever, api_key |-> api_key,
                             return_source_documents |-> return_source_documents]
              ELSE chain' = chain
           /\ last' = Outcome("from_chain_type", IF valid THEN "ok" ELSE "ValueError",
                              retriever, IF discovers THEN local ELSE NotSent,
                              IF discovers THEN cloud ELSE "NotSent",
                              NotSearched, NoResult)
    /\ UNCHANGED <<search_kwargs, req, prompt_sent>>

-----------------------------------------------------------------------------
(* Requests *)

\* first statement of _get_docs / _aget_docs on behalf of thread t
Enforce(t, path, ctx, auth_in, sem_in) ==
    LET rt == chain.retriever
        enf == set_enforcement_filters(search_kwargs[rt], vectorstore(rt), ctx.auth, ctx.sem)
    IN  /\ search_kwargs' = [search_kwargs EXCEPT ![rt] = enf.slot]
        /\ IF get_docs_proceeds(enf.status)
           THEN /\ req' = [req EXCEPT ![t] = [pc |-> "attached", path |-> path,
                                              auth |-> auth_in, sem |-> sem_in,
                                              enforced |-> enf.status]]
                /\ last' = NoOutcome
           ELSE /\ req' = req
                /\ last' = Outcome(path, enf.status, rt, NotSent, "NotSent", NotSearched, NoResult)
        /\ UNCHANGED <<chain, discover_sent, prompt_sent>>

\* _call up to and including set_enforcement_filters in _get_docs
Call_Enforce(t, auth_in, sem_in) ==
    /\ chain # NoChain
    /\ req[t].pc = "idle"
    /\ Enforce(t, "_call", call_contexts(auth_in, sem_in), auth_in, sem_in)

\* _acall up to and including set_enforcement_filters in _aget_docs
Acall_Enforce(t, auth_in, sem_in) ==
    /\ chain # NoChain
    /\ req[t].pc = "idle"
    /\ Enforce(t, "_acall", acall_contexts(auth_in, sem_in), auth_in, sem_in)

\* rest of _call: get_relevant_documents, combine_documents_chain.run,
\* _send_prompt, return
Call_SearchAndReturn(t, downstream, local, cloud) ==
    /\ req[t].pc = "attached"
    /\ req[t].path = "_call"
    /\ IF downstream = "ok"
       THEN local \in LocalOutcomes /\ cloud \in CloudFor(chain.api_key)
       ELSE local = NotSent /\ cloud = "NotSent"    \* _send_prompt is not reached
    /\ LET rt == chain.retriever
           used == search_kwargs[rt]
           docs == Search(used)
           answer == Answer(docs)
       IN  /\ req' = [req EXCEPT ![t] = Idle]
           /\ IF downstream = "search_raises"
              THEN /\ last' = Outcome("_call", "SearchError", rt, NotSent, "NotSent", NotSearched, NoResult)
                   /\ UNCHANGED prompt_sent
              ELSE IF downstream = "combine_raises"
              THEN /\ last' = Outcome("_call", "CombineError", rt, NotSent, "NotSent", used, NoResult)
                   /\ UNCHANGED prompt_sent
              ELSE /\ prompt_sent' = (prompt_sent \/ prompt_accepted(local))
                   /\ IF send_prompt(local, cloud, chain.api_key) = "returns"
                      THEN last' = Outcome("_call", "ok", rt, local, cloud, used,
                                           call_return(answer, docs, chain.return_source_documents))
                      ELSE last' = Outcome("_call", "TelemetryError", rt, local, cloud, used, NoResult)
    /\ UNCHANGED <<chain, search_kwargs, discover_sent>>

\* rest of _acall: aget_relevant_documents, combine_documents_chain.arun, return
Acall_SearchAndReturn(t, downstream) ==
    /\ req[t].pc = "attached"
    /\ req[t].path = "_acall"
    /\ LET rt == chain.retriever
           used == search_kwargs[rt]
           docs == Search(used)
           answer == Answer(docs)
       IN  /\ req' = [req EXCEPT ![t] = Idle]
           /\ last' =
                CASE downstream = "search_raises" ->
                        Outcome("_acall", "SearchError", rt, NotSent, "NotSent", NotSearched, NoResult)
                  [] downstream = "combine_raises" ->
                        Outcome("_acall", "CombineError", rt, NotSent, "NotSent", used, NoResult)
                  [] OTHER ->
                        Outcome("_acall", "ok", rt, NotSent, "NotSent", used,
                                call_return(answer, docs, chain.return_source_documents))
    /\ UNCHANGED <<chain, search_kwargs, discover_sent, prompt_sent>>

Downstream == {"ok", "search_raises", "combine_raises"}

Next ==
    \/ \E rt \in Retrievers, key \in BOOLEAN, rsd \in BOOLEAN :
          Construct(rt, key, rsd)
    \/ \E rt \in Retrievers, key \in BOOLEAN, rsd \in BOOLEAN,
          local \in LocalOutcomes, cloud \in CloudOutcomes \cup {"NotSent"} :
          FromChainType(rt, key, rsd, local, cloud)
    \/ \E t \in Threads, a \in AuthInputs, s \in SemanticInputs :
          Call_Enforce(t, a, s)
    \/ \E t \in Threads, a \in AuthInputs, s \in SemanticInputs :
          Acall_Enforce(t, a, s)
    \/ \E t \in Threads, ds \in Downstream, local \in LocalOutcomes \cup {NotSent},
          cloud \in CloudOutcomes \cup {"NotSent"} :
          Call_SearchAndReturn(t, ds, local, cloud)
    \/ \E t \in Threads, ds \in Downstream :
          Acall_SearchAndReturn(t, ds)

Spec == Init /\ [][Next]_vars

-----------------------------------------------------------------------------
(* Vocabulary of the properties *)

EnforcementErrors ==
    {"UnsupportedBackendError", "UnsupportedFilterOperatorError",
     "MissingFieldMappingError", "InvalidConstraintError"}

\* the step in which thread t's request attached its filter
EnforceStep(t) == req[t].pc = "idle" /\ req'[t].pc = "attached"

\* the step in which thread t's request ran its search
SearchStep(t) ==
    req[t].pc = "attached" /\ req'[t].pc = "idle" /\ last'.used # NotSearched

\* the contexts a request hands to enforcement
ContextsOf(r) ==
    IF r.path = "_call" THEN call_contexts(r.auth, r.sem) ELSE acall_contexts(r.auth, r.sem)

\* the filter compiled from a request's own contexts
OwnFilter(r) ==
    CompileFilter(ContextsOf(r).auth, ContextsOf(r).sem, vectorstore(chain.retriever)).filter

NoSemantic(sem) ==
    \/ sem.kind = "omitted"
    \/ /\ sem.kind = "SemanticContext"
       /\ sem.allowed_topics = {} /\ sem.denied_topics = {}
       /\ sem.allowed_entities = {} /\ sem.denied_entities = {}

NoAuth(auth) ==
    \/ auth.kind = "omitted"
    \/ auth.kind = "AuthContext" /\ auth.user_auth = <<>>

-----------------------------------------------------------------------------
(* Properties *)

\* C1 (fail closed): a request goes on to its search only when
\* set_enforcement_filters returned; when it raised, the caller got that
\* error, and the call searched nothing and produced no answer.
C1_FailClosed ==
    /\ \A t \in Threads : req[t].pc = "attached" => req[t].enforced = "ok"
    /\ last.status \in EnforcementErrors =>
          /\ last.op \in {"_call", "_acall"}
          /\ last.used = NotSearched
          /\ last.result = NoResult

C1_Witness ==
    /\ last.op \in {"_call", "_acall"}
    /\ last.status = "UnsupportedFilterOperatorError"

\* C2 (unsupported backend): a retriever over an unsupported store is always
\* rejected with the unsupported-store error, its filter slot is never
\* touched, no chain ever holds it and no search ever runs through it.
C2_UnsupportedRejected ==
    /\ \A r \in Retrievers :
          vectorstore(r) \notin SUPPORTED_VECTORSTORES =>
             /\ search_kwargs[r] = NoAttachment
             /\ chain # NoChain => chain.retriever # r
    /\ (last.op \in {"__init__", "from_chain_type"}
        /\ vectorstore(last.retriever) \notin SUPPORTED_VECTORSTORES) =>
          last.status = "ValueError"
    /\ last.used # NotSearched =>
          vectorstore(last.retriever) \in SUPPORTED_VECTORSTORES

C2_Witness ==
    /\ last.op \in {"__init__", "from_chain_type"}
    /\ last.retriever = "rZ"
    /\ last.status = "ValueError"

\* C3 (per-request atomicity): the search run for a request uses the filter
\* compiled from that request's own contexts, under every interleaving of
\* the requests sharing the chain.
C3_SearchUsesOwnFilter ==
    [][\A t \in Threads : SearchStep(t) => last'.used = OwnFilter(req[t])]_vars

\* C4 (request-scoped attachment): the filter attached for a request is not
\* retained past that request's search: while no request stands between its
\* attachment and its search, the handle carries no filter.
C4_RequestScoped ==
    (chain # NoChain /\ \A t \in Threads : req[t].pc = "idle") =>
        search_kwargs[chain.retriever] = NoAttachment

\* C5 (deny overrides): the filter a request attaches carries the NOT-IN
\* predicate for exactly its denied labels whatever its allow lists say, and
\* lets through no document carrying a label that is both allowed and denied.
C5_DenyOverrides ==
    [][\A t \in Threads :
          (EnforceStep(t) /\ req'[t].sem.kind = "SemanticContext") =>
             LET sem == req'[t].sem
                 f == search_kwargs'[chain.retriever]
             IN  /\ f.topics.not_in = sem.denied_topics
                 /\ f.entities.not_in = sem.denied_entities
                 /\ \A d \in Search(f) :
                       /\ Metadata(d).topics \cap sem.allowed_topics \cap sem.denied_topics = {}
                       /\ Metadata(d).entities \cap sem.allowed_entities
                             \cap sem.denied_entities = {}]_vars

C5_Witness ==
    \E t \in Threads :
        /\ req[t].pc = "attached"
        /\ req[t].sem.kind = "SemanticContext"
        /\ req[t].sem.allowed_topics \cap req[t].sem.denied_topics # {}
        /\ search_kwargs[chain.retriever] = OwnFilter(req[t])
        /\ "d1" \notin Search(search_kwargs[chain.retriever])

C8_TelemetryNeverAffectsAnswer ==
    (last.op = "_call" /\ last.used # NotSearched /\ last.status # "CombineError") =>
        /\ last.status = "ok"
        /\ last.result.result = Answer(Search(last.used))
        /\ IF chain.return_source_documents
           THEN /\ last.result.keys = {"result", "source_documents"}
                /\ last.result.source_documents = Search(last.used)
           ELSE last.result.keys = {"result"}

C8_Witness ==
    /\ last.op = "_call" /\ last.status = "ok"
    /\ last.local.kind = "Exception"
    /\ chain.api_key
    /\ last.cloud = "RequestException"
    /\ chain.return_source_documents
    /\ last.result.source_documents # {}

\* C9 (discovery precedes validation): a from_chain_type call rejected for
\* an unsupported vector store has already made the discover POST, and has
\* set _discover_sent when that POST was accepted.
C9_DiscoverBeforeValidation ==
    (last.op = "from_chain_type" /\ last.status = "ValueError") =>
        /\ last.local # NotSent
        /\ (last.local.kind = "response" /\ last.local.json_ok
            /\ last.local.status \in {OK, BAD_GATEWAY}) => discover_sent

C9_Witness ==
    /\ last.op = "from_chain_type" /\ last.status = "ValueError"
    /\ last.local = Response(OK, TRUE)
    /\ discover_sent
    /\ chain = NoChain

\* C10 (sent flags): both flags start False; a flag changes only to True,
\* only in a step whose local classifier POST returned 200 or 502 (discover
\* for _discover_sent, prompt for _prompt_sent), so never on account of the
\* cloud POST; and no step resets a flag.
C10_SentFlags ==
    /\ ~discover_sent /\ ~prompt_sent
    /\ [][/\ discover_sent' # discover_sent =>
                /\ discover_sent'
                /\ last'.op = "from_chain_type"
                /\ last'.local.kind = "response"
                /\ last'.local.status \in {OK, BAD_GATEWAY}
          /\ prompt_sent' # prompt_sent =>
                /\ prompt_sent'
                /\ last'.op = "_call"
                /\ last'.local.kind = "response"
                /\ last'.local.status \in {OK, BAD_GATEWAY}]_vars

C10_Witness ==
    /\ discover_sent /\ prompt_sent
    /\ last.op = "_call" /\ last.local = Response(500, TRUE)
    /\ last.cloud = "response"

====
